---- MODULE Spec2Model ----
(***************************************************************************)
(* Model of the DUO MBO dashboard scripts.                                 *)
(*                                                                         *)
(*   utils.py      detect_and_clean_data (library version)                 *)
(*   dashboard.py  detect_and_clean_data (its own copy), the aggregation,  *)
(*                 the Top N selection and the "<5" report                 *)
(*   app.py        get_numeric_cols, the aggregation and the Top N         *)
(*                                                                         *)
(* A text is a sequence of one-character strings.  A cell of a DataFrame   *)
(* is a record [k, s, m, d]: k = "str" holds the text s, k = "nan" is a    *)
(* missing value (NaN), k = "num" is the float m / 10^d (m, d naturals,    *)
(* m not divisible by 10 unless d = 0).  A Series is a sequence of cells,  *)
(* a DataFrame is [columns: the column names in order, n: the number of    *)
(* rows, data: column name -> Series].                                     *)
(* pandas 2.x semantics are modelled: Series.astype(str) turns a missing   *)
(* value into the text "nan".                                              *)
(***************************************************************************)
EXTENDS Integers, Sequences, FiniteSets, TLC

VARIABLES
    script,            \* which file of the repository runs
    pc,                \* position of the run: "start", "cleaned" (the call
                       \* returned), "shown" (chart drawn), "info" (nothing
                       \* to draw), "error" (uncaught exception)
    df_raw,            \* the table as loaded, every cell a text or NaN
    df_clean,          \* detect_and_clean_data: first output
                       \* (app.py: df_processed)
    mask_less_than_5,  \* detect_and_clean_data: second output
    categoricals,      \* detect_and_clean_data: third output
                       \* (app.py: grouping_cols)
    numerics,          \* detect_and_clean_data: fourth output
                       \* (app.py: numeric_cols)
    dimension,         \* the grouping column: dashboard.py x_axis, app.py y_axis
    measures,          \* the summed columns: dashboard.py y_axis, app.py x_axes
    top_n,             \* dashboard.py top_n_optie, app.py top_n
    ascending,         \* dashboard.py ascending, app.py sort_ascending
    grouped,           \* groupby(...).sum() was evaluated in this run
    df_final,          \* dashboard.py df_final, app.py df_top_n
    report,            \* dashboard.py report, the "<5" table
    err,               \* the exception that ended the run, or "none"
    year_col           \* app.py year_col, the result of get_year_col

vars ==
    <<script, pc, df_raw, df_clean, mask_less_than_5, categoricals, numerics,
      dimension, measures, top_n, ascending, grouped, df_final, report, err,
      year_col>>

(***************************************************************************)
(* Cells                                                                   *)
(***************************************************************************)
NaN == [k |-> "nan", s |-> <<>>, m |-> 0, d |-> 0]

Str(t) == [k |-> "str", s |-> t, m |-> 0, d |-> 0]

RECURSIVE Normalize(_, _)
Normalize(m, d) ==
    IF d > 0 /\ m % 10 = 0 THEN Normalize(m \div 10, d - 1) ELSE <<m, d>>

Num(m, d) ==
    LET nd == Normalize(m, d)
    IN  [k |-> "num", s |-> <<>>, m |-> nd[1], d |-> nd[2]]

Zero == Num(0, 0)

RECURSIVE Pow10(_)
Pow10(e) == IF e = 0 THEN 1 ELSE 10 * Pow10(e - 1)

Max(a, b) == IF a >= b THEN a ELSE b

\* float addition of two "num" cells (exact on the decimals of the model)
Add(x, y) ==
    LET e == Max(x.d, y.d)
    IN  Num(x.m * Pow10(e - x.d) + y.m * Pow10(e - y.d), e)

\* x < y on two "num" cells
Less(x, y) ==
    LET e == Max(x.d, y.d)
    IN  x.m * Pow10(e - x.d) < y.m * Pow10(e - y.d)

(***************************************************************************)
(* str methods                                                             *)
(***************************************************************************)
RECURSIVE LStrip(_)
LStrip(t) == IF t # <<>> /\ Head(t) = " " THEN LStrip(Tail(t)) ELSE t

RECURSIVE RStrip(_)
RStrip(t) ==
    IF t # <<>> /\ t[Len(t)] = " " THEN RStrip(SubSeq(t, 1, Len(t) - 1)) ELSE t

\* str.strip()
Strip(t) == RStrip(LStrip(t))

\* str.replace(ch, '')
RemoveAll(t, ch) == SelectSeq(t, LAMBDA c : c # ch)

\* str.replace(a, b) for one-character a and b
ReplaceAll(t, a, b) == [i \in 1..Len(t) |-> IF t[i] = a THEN b ELSE t[i]]

Digits == {"0", "1", "2", "3", "4", "5", "6", "7", "8", "9"}

DigitVal(c) ==
    CASE c = "0" -> 0 [] c = "1" -> 1 [] c = "2" -> 2 [] c = "3" -> 3
      [] c = "4" -> 4 [] c = "5" -> 5 [] c = "6" -> 6 [] c = "7" -> 7
      [] c = "8" -> 8 [] c = "9" -> 9

RECURSIVE Mantissa(_)
Mantissa(t) ==
    IF t = <<>> THEN 0
    ELSE 10 * Mantissa(SubSeq(t, 1, Len(t) - 1)) + DigitVal(t[Len(t)])

\* the position of the first "." of t, 0 when it has none
PointAt(t) ==
    IF \E i \in 1..Len(t) : t[i] = "."
    THEN CHOOSE i \in 1..Len(t) : t[i] = "." /\ \A j \in 1..(i - 1) : t[j] # "."
    ELSE 0

\* a text pd.to_numeric reads as a float: digits with at most one ".", and at
\* least one digit (the texts of the model carry no sign and no exponent)
IsFloatText(t) ==
    /\ \A i \in 1..Len(t) : t[i] \in Digits \cup {"."}
    /\ Cardinality({i \in 1..Len(t) : t[i] = "."}) <= 1
    /\ \E i \in 1..Len(t) : t[i] \in Digits

\* pd.to_numeric(..., errors='coerce') on one cell
ToNumeric(c) ==
    IF c.k = "str" /\ IsFloatText(c.s)
    THEN LET p == PointAt(c.s)
         IN  IF p = 0 THEN Num(Mantissa(c.s), 0)
             ELSE Num(Mantissa(RemoveAll(c.s, ".")), Len(c.s) - p)
    ELSE NaN

notna(c) == c.k # "nan"

\* Series.fillna(0)
fillna0(c) == IF c.k = "nan" THEN Zero ELSE c

\* Series.astype(str): a missing value becomes the text "nan"
AsStr(c) == IF c.k = "nan" THEN Str(<<"n", "a", "n">>) ELSE c

\* the strip of the left side only
StrLStrip(c) == IF c.k = "str" THEN Str(LStrip(c.s)) ELSE c

\* Series.str.strip(): a missing value stays missing
StrStrip(c) == IF c.k = "str" THEN Str(Strip(c.s)) ELSE c

Privacy == <<"<", "5">>

Range(seq) == {seq[i] : i \in 1..Len(seq)}

\* the sequence of the f(series[i]), as an explicit tuple
Map(f(_), series) == [i \in 1..Len(series) |-> f(series[i])] \o <<>>

Count(P(_), series) == Cardinality({i \in 1..Len(series) : P(series[i])})

\* Series.dropna()
dropna(series) == SelectSeq(series, notna)

(***************************************************************************)
(* detect_and_clean_data: one pass of the loop over the columns            *)
(* (utils.py lines 13-37, dashboard.py lines 130-145)                      *)
(***************************************************************************)
\* utils.py: series_clean
utils_series_clean(column) == Map(LAMBDA c : StrStrip(AsStr(c)), column)

\* utils.py: one cell of series_numeric_ready
utils_numeric_ready(c) ==
    IF c.k = "str" THEN Str(ReplaceAll(RemoveAll(c.s, "."), ",", ".")) ELSE c

\* dashboard.py: series_clean
dash_series_clean(column) == Map(StrStrip, column)

\* dashboard.py: one cell of series_numeric_ready
dash_numeric_ready(c) ==
    IF c.k = "str" THEN Str(ReplaceAll(c.s, ",", ".")) ELSE c

series_clean_of(s, column) ==
    IF s = "utils" THEN utils_series_clean(column) ELSE dash_series_clean(column)

\* converted, from series_clean
converted_of(s, series_clean) ==
    IF s = "utils" THEN Map(LAMBDA c : ToNumeric(utils_numeric_ready(c)), series_clean)
    ELSE Map(LAMBDA c : ToNumeric(dash_numeric_ready(c)), series_clean)

\* is_privacy_val, from series_clean
is_privacy_val(series_clean) == Map(LAMBDA c : c = Str(Privacy), series_clean)

\* the locals of one pass: series_clean, is_privacy_val, converted, and the
\* raw column with its length (len(df_raw))
loop_locals(s, column) ==
    LET series_clean == series_clean_of(s, column)
    IN  [column         |-> column,
         series_clean   |-> series_clean,
         is_privacy_val |-> is_privacy_val(series_clean),
         converted      |-> converted_of(s, series_clean)]

any(series) == \E i \in 1..Len(series) : series[i]

\* the decision with ">=" for ">" and without the guard on the row count
utils_is_numeric_unguarded(L) ==
    LET valid_count     == Count(notna, L.converted)
        total_non_empty == Len(dropna(L.series_clean))
    IN  any(L.is_privacy_val) \/ 2 * valid_count >= total_non_empty

\* utils.py line 31: total_non_empty > 0 and
\* (is_privacy_val.any() or (valid_count / total_non_empty) > 0.5)
utils_is_numeric(L) ==
    LET valid_count     == Count(notna, L.converted)
        total_non_empty == Len(dropna(L.series_clean))
    IN  total_non_empty > 0 /\ (any(L.is_privacy_val) \/ 2 * valid_count > total_non_empty)

\* dashboard.py line 141: valid_count > 0 and
\* (is_privacy_val.any() or valid_count > 0.5 * total_count)
dash_is_numeric(L) ==
    LET valid_count == Count(notna, L.converted)
        total_count == Len(L.column)
    IN  valid_count > 0 /\ (any(L.is_privacy_val) \/ 2 * valid_count > total_count)

is_numeric_of(s, L) == IF s = "utils" THEN utils_is_numeric(L) ELSE dash_is_numeric(L)

\* the column of df_clean: utils.py lines 33 and 36; dashboard.py line 142,
\* and the untouched copy of the raw column otherwise
clean_column(s, L, numeric) ==
    IF numeric
    THEN IF s = "utils" THEN Map(fillna0, L.converted) ELSE L.converted
    ELSE IF s = "utils" THEN L.series_clean ELSE L.column

\* what one pass leaves: the branch taken, the column of the mask and the
\* column of df_clean
loop_pass(s, column) ==
    LET L       == loop_locals(s, column)
        numeric == is_numeric_of(s, L)
    IN  [numeric |-> numeric,
         mask    |-> L.is_privacy_val,
         clean   |-> clean_column(s, L, numeric)]

ColSet(df) == {df.columns[i] : i \in 1..Len(df.columns)}

ColIndex(df, col) == CHOOSE j \in 1..Len(df.columns) : df.columns[j] = col

\* the column names for which P holds, in column order
ColsWhere(df, P(_)) == SelectSeq(df.columns, P)

\* the passes of the loop, in column order
detect_loop(s, df) ==
    [j \in 1..Len(df.columns) |-> loop_pass(s, df.data[df.columns[j]])] \o <<>>

\* the four outputs, from the passes
detect_df_clean(df, passes) ==
    [df EXCEPT !.data = [col \in ColSet(df) |-> passes[ColIndex(df, col)].clean]]

detect_mask(df, passes) ==
    [df EXCEPT !.data = [col \in ColSet(df) |-> passes[ColIndex(df, col)].mask]]

detect_numerics(df, passes) ==
    ColsWhere(df, LAMBDA col : passes[ColIndex(df, col)].numeric)

\* the else branch replaced by a test of its own: no "<5" in the column
detect_categoricals_no_privacy(df, passes) ==
    ColsWhere(df, LAMBDA col : ~any(passes[ColIndex(df, col)].mask))

detect_categoricals(df, passes) ==
    ColsWhere(df, LAMBDA col : ~passes[ColIndex(df, col)].numeric)

(***************************************************************************)
(* Widgets                                                                 *)
(***************************************************************************)
\* no selection (Python None); no column of a table has the empty name
None == ""

\* the Top N options.  dashboard.py offers "Top 5", "Top 10", "Top 20" and
\* "Alles", app.py offers 5, 10, 20; the sizes are scaled down to the tables
\* of the model, the default stays the second option (index=1).
TopSizes == <<1, 2, 3>>

Top(k) == [all |-> FALSE, n |-> k]

Alles == [all |-> TRUE, n |-> 0]

DefaultTop == Top(TopSizes[2])

TopOptions(s) ==
    {Top(TopSizes[i]) : i \in 1..Len(TopSizes)} \cup (IF s = "dashboard" THEN {Alles} ELSE {})

\* the selections a multiselect over the options can return, in option order
MultiSelect(options) ==
    {SelectSeq(options, LAMBDA c : c \in S) : S \in SUBSET Range(options)}

(***************************************************************************)
(* groupby / sum / sort_values / head / tail                               *)
(***************************************************************************)
RECURSIVE SumCells(_)
SumCells(series) ==
    IF series = <<>> THEN Zero ELSE Add(Head(series), SumCells(Tail(series)))

\* the group keys: the values of the column, missing values dropped
GroupKeys(df, dim) == {df.data[dim][i] : i \in {j \in 1..df.n : notna(df.data[dim][j])}}

\* the cells of column m in the rows of the group
GroupCells(df, dim, m, key) ==
    LET idx == SelectSeq([i \in 1..df.n |-> i], LAMBDA i : df.data[dim][i] = key)
    IN  [j \in 1..Len(idx) |-> df.data[m][idx[j]]]

\* df.groupby(dim)[ms].sum() with the total over the measures
\* (dashboard.py '__Sort__', app.py 'Totaal'): one row per key
groupby_sum(df, dim, ms) ==
    { LET sums == [m \in Range(ms) |-> SumCells(GroupCells(df, dim, m, key))]
      IN  [key |-> key, sums |-> sums,
           total |-> SumCells([j \in 1..Len(ms) |-> sums[ms[j]]])] :
      key \in GroupKeys(df, dim) }

Perms(S) ==
    {q \in [1..Cardinality(S) -> S] : \A i, j \in 1..Cardinality(S) : i # j => q[i] # q[j]}

\* sort_values on the total: every order of the rows the sort can return
\* (rows of equal total in any order)
sort_values(rows, asc) ==
    {q \in Perms(rows) :
        \A i, j \in 1..Len(q) :
            i < j => IF asc THEN ~Less(q[j].total, q[i].total)
                            ELSE ~Less(q[i].total, q[j].total)}

Min(a, b) == IF a <= b THEN a ELSE b

head(q, k) == SubSeq(q, 1, Min(k, Len(q)))

tail(q, k) == SubSeq(q, Len(q) - Min(k, Len(q)) + 1, Len(q))

(***************************************************************************)
(* dashboard.py: the graph and the "<5" report                             *)
(***************************************************************************)
\* df_viz: the chosen measures with fillna(0)
dash_df_viz(clean, ms) ==
    [clean EXCEPT !.data =
        [col \in ColSet(clean) |->
            IF col \in Range(ms) THEN Map(fillna0, clean.data[col]) ELSE clean.data[col]]]

\* the Top N of the sorted groups
dash_top_n(q, n) == IF n.all THEN q ELSE head(q, n.n)

\* the rows of the mask kept for the report, all rows whatever the chart shows
dash_mask_rows_unfiltered(clean, dim, final) == {i \in 1..clean.n : notna(clean.data[dim][i])}

\* mask_sub: the rows whose dimension value is among the rows of df_final
dash_mask_rows(clean, dim, final) ==
    {i \in 1..clean.n : clean.data[dim][i] \in {final[j].key : j \in 1..Len(final)}}

\* lt5_counts with 'Totaal_Verborgen'
dash_lt5_counts(mask, clean, dim, ms, final) ==
    LET rows == dash_mask_rows(clean, dim, final)
    IN  { LET counts == [m \in Range(ms) |->
                            Cardinality({i \in rows : clean.data[dim][i] = key /\ mask.data[m][i]})]
          IN  [key |-> key, counts |-> counts,
               total |-> SumCells([j \in 1..Len(ms) |-> Num(counts[ms[j]], 0)])] :
          key \in {clean.data[dim][i] : i \in rows} }

\* report: the rows with Totaal_Verborgen > 0, sorted descending
dash_report(mask, clean, dim, ms, final) ==
    sort_values({r \in dash_lt5_counts(mask, clean, dim, ms, final) : Less(Zero, r.total)},
                FALSE)

(***************************************************************************)
(* app.py                                                                  *)
(***************************************************************************)
\* get_numeric_cols on one column; every column is read as text (dtype=str),
\* and with at most 50 rows the sample is the whole column
app_is_numeric(column) ==
    LET sample == Map(LAMBDA c : StrStrip(Str(RemoveAll(AsStr(c).s, "."))), column)
        valid  == Count(notna, Map(ToNumeric, sample))
    IN  Len(column) > 0 /\ 5 * valid >= 4 * Len(column)

app_numeric_cols(df) == ColsWhere(df, LAMBDA col : app_is_numeric(df.data[col]))

\* grouping_cols: the columns that are not in numeric_cols
app_grouping_cols(df, numeric_cols) ==
    ColsWhere(df, LAMBDA col : col \notin Range(numeric_cols))

\* df_processed: the chosen measures converted, fillna(0)
app_df_processed(df, ms) ==
    [df EXCEPT !.data =
        [col \in ColSet(df) |->
            IF col \in Range(ms)
            THEN Map(LAMBDA c : fillna0(ToNumeric(Str(RemoveAll(AsStr(c).s, ".")))), df.data[col])
            ELSE df.data[col]]]

\* df_top_n
app_top_n(q, n) == tail(q, n.n)

(***************************************************************************)
(* app.py: get_year_col.  A column name is a text, a sequence of           *)
(* one-character strings.                                                  *)
(***************************************************************************)
UpperCase ==
    <<"A", "B", "C", "D", "E", "F", "G", "H", "I", "J", "K", "L", "M",
      "N", "O", "P", "Q", "R", "S", "T", "U", "V", "W", "X", "Y", "Z">>

LowerCase ==
    <<"a", "b", "c", "d", "e", "f", "g", "h", "i", "j", "k", "l", "m",
      "n", "o", "p", "q", "r", "s", "t", "u", "v", "w", "x", "y", "z">>

\* str.lower() on one character
LowerChar(c) ==
    IF \E i \in 1..Len(UpperCase) : UpperCase[i] = c
    THEN LowerCase[CHOOSE i \in 1..Len(UpperCase) : UpperCase[i] = c]
    ELSE c

\* str.lower()
lower(t) == [i \in 1..Len(t) |-> LowerChar(t[i])]

\* sub in t
Contains(sub, t) ==
    \E i \in 1..(Len(t) - Len(sub) + 1) : SubSeq(t, i, i + Len(sub) - 1) = sub

T_jaar == <<"j", "a", "a", "r">>

T_onderwijsjaar == <<"o", "n", "d", "e", "r", "w", "i", "j", "s", "j", "a", "a", "r">>

T_jj == <<"j", "j">>

\* the result of get_year_col: None, or the column returned
NoYear == [found |-> FALSE, name |-> <<>>]

YearCol(col) == [found |-> TRUE, name |-> col]

\* app.py lines 35-36: the test of one column name
year_match(col) ==
    LET col_lower == lower(col)
    IN  \/ Contains(T_jaar, col_lower)
        \/ Contains(T_onderwijsjaar, col_lower)
        \/ col_lower = T_jj

\* app.py lines 34-38: the first column that passes the test, None otherwise
RECURSIVE get_year_col(_)
get_year_col(columns) ==
    IF columns = <<>> THEN NoYear
    ELSE IF year_match(Head(columns)) THEN YearCol(Head(columns))
    ELSE get_year_col(Tail(columns))

(***************************************************************************)
(* Tables                                                                  *)
(***************************************************************************)
MaxRows == 2

T_lt5    == <<"<", "5">>
T_lt5sp  == <<" ", "<", "5", " ">>
T_dutch  == <<"1", ".", "2", "3", "4", ",", "5", "6">>
T_point  == <<"1", ".", "5">>
T_label  == <<" ", "a", "b">>

CleanCells == {NaN, Str(T_lt5), Str(T_lt5sp), Str(T_dutch), Str(T_point), Str(T_label)}

CleanColumns == {<<>>, <<"c1">>, <<"c1", "c2">>}

Series(cells, n) == [1..n -> cells]

\* a table over the column names cs, with n rows of the given cells
Frame(cs, n, dt) == [columns |-> cs, n |-> n, data |-> dt]

NoFrame == [columns |-> <<>>, n |-> 0, data |-> <<>>]

(***************************************************************************)
(* The call detect_and_clean_data(df_raw)                                  *)
(***************************************************************************)
TypeOK ==
    /\ script \in {"utils", "dashboard", "app"}
    /\ pc \in {"start", "cleaned", "shown", "info", "error", "year"}
    /\ err \in {"none", "ValueError"}
    /\ grouped \in BOOLEAN
    /\ ascending \in BOOLEAN

InitClean ==
    /\ script \in {"utils", "dashboard"}
    /\ pc = "start"
    /\ \E cs \in CleanColumns : \E n \in 0..(IF cs = <<>> THEN 0 ELSE MaxRows) :
           \E dt \in [{cs[i] : i \in 1..Len(cs)} -> Series(CleanCells, n)] :
               df_raw = Frame(cs, n, dt)
    /\ df_clean = NoFrame
    /\ mask_less_than_5 = NoFrame
    /\ categoricals = <<>>
    /\ numerics = <<>>
    /\ dimension = None
    /\ measures = <<>>
    /\ top_n = DefaultTop
    /\ ascending = FALSE
    /\ grouped = FALSE
    /\ df_final = <<>>
    /\ report = <<>>
    /\ err = "none"
    /\ year_col = NoYear

DetectAndClean ==
    /\ pc = "start"
    /\ script \in {"utils", "dashboard"}
    /\ \E passes \in {detect_loop(script, df_raw)} :
           /\ df_clean' = detect_df_clean(df_raw, passes)
           /\ mask_less_than_5' = detect_mask(df_raw, passes)
           /\ categoricals' = detect_categoricals(df_raw, passes)
           /\ numerics' = detect_numerics(df_raw, passes)
    /\ pc' = "cleaned"
    /\ err' = "none"
    /\ UNCHANGED <<script, df_raw, dimension, measures, top_n, ascending, grouped,
                   df_final, report, year_col>>

NextClean == DetectAndClean

SpecClean == InitClean /\ [][NextClean]_vars

(***************************************************************************)
(* Properties of detect_and_clean_data (stated for SpecClean)             *)
(***************************************************************************)
Occurrences(x, seq) == Cardinality({i \in 1..Len(seq) : seq[i] = x})

Returned == pc = "cleaned"

\* the text of a raw cell with the surrounding whitespace removed
IsSuppressedCell(c) == c.k = "str" /\ Strip(c.s) = Privacy

IsNonEmptyCell(c) == c.k = "str" /\ Strip(c.s) # <<>>

HasSuppressed(df, col) == \E i \in 1..df.n : IsSuppressedCell(df.data[col][i])

\* the local "converted" of the pass over the column
Converted(col) == converted_of(script, series_clean_of(script, df_raw.data[col]))

ParsedCount(col) == Count(notna, Converted(col))

NonEmptyCount(col) == Count(IsNonEmptyCell, df_raw.data[col])

\* C1: every column name of the input appears in exactly one of the two
\* returned lists: once in categoricals or once in numerics, never in both,
\* and the lists name nothing else.
C1_ListsPartitionColumns ==
    Returned =>
        /\ \A col \in ColSet(df_raw) :
               Occurrences(col, categoricals) + Occurrences(col, numerics) = 1
        /\ Range(categoricals) \cup Range(numerics) \subseteq ColSet(df_raw)

C1_Witness ==
    /\ Returned
    /\ Len(df_raw.columns) = 2
    /\ Len(categoricals) = 1
    /\ Len(numerics) = 1
    /\ HasSuppressed(df_raw, numerics[1])

\* C2: in a table with at least one row, every column holding a cell that
\* equals "<5" after trimming is classified Numeric, whatever the other cells
\* hold (also when no cell parses as a number).
C2_SuppressedColumnIsNumeric ==
    (Returned /\ df_raw.n >= 1) =>
        \A col \in ColSet(df_raw) :
            HasSuppressed(df_raw, col) => col \in Range(numerics)

\* C2 restricted to utils.py, where it holds
C2_HoldsInUtils == script = "utils" => C2_SuppressedColumnIsNumeric

\* C3: a column without suppressed cell is Numeric exactly when
\* (cells that parse) / (cells whose trimmed text is non-empty) > 0.5; empty
\* and missing cells are not in the denominator; no non-empty cell gives
\* Categorical.
C3_RatioOverNonEmptyCells ==
    Returned =>
        \A col \in ColSet(df_raw) :
            ~HasSuppressed(df_raw, col) =>
                (col \in Range(numerics) <=>
                    (NonEmptyCount(col) > 0 /\ 2 * ParsedCount(col) > NonEmptyCount(col)))

\* what both copies compute: the ratio over all the rows of the table
C3_RatioOverAllRows ==
    Returned =>
        \A col \in ColSet(df_raw) :
            ~HasSuppressed(df_raw, col) =>
                (col \in Range(numerics) <=>
                    (df_raw.n > 0 /\ 2 * ParsedCount(col) > df_raw.n))

\* C4: the mask has the rows and columns of the raw table, and a cell of it
\* is true exactly where the raw cell's text, trimmed, equals "<5", in the
\* Numeric and in the Categorical columns alike.
C4_MaskMarksTrimmedPrivacy ==
    Returned =>
        /\ mask_less_than_5.columns = df_raw.columns
        /\ mask_less_than_5.n = df_raw.n
        /\ DOMAIN mask_less_than_5.data = ColSet(df_raw)
        /\ \A col \in ColSet(df_raw) :
               /\ Len(mask_less_than_5.data[col]) = df_raw.n
               /\ \A i \in 1..df_raw.n :
                      mask_less_than_5.data[col][i] = IsSuppressedCell(df_raw.data[col][i])

C4_Witness ==
    /\ Returned
    /\ \E c1 \in Range(numerics), c2 \in Range(categoricals) :
           /\ \E i \in 1..df_raw.n :
                  /\ df_raw.data[c1][i] = Str(T_lt5sp)
                  /\ mask_less_than_5.data[c1][i]
           /\ \E i \in 1..df_raw.n : ~mask_less_than_5.data[c1][i]
           /\ \E i \in 1..df_raw.n : mask_less_than_5.data[c2][i]

\* C5: in the cleaned table a cell of a Numeric column holds its parsed
\* value, 0 when it is unparsable, missing or suppressed; a cell of a
\* Categorical column holds the trimmed text of the raw cell.
C5_CleanedCells ==
    Returned =>
        \A col \in ColSet(df_raw) : \A i \in 1..df_raw.n :
            LET raw     == df_raw.data[col][i]
                cleaned == df_clean.data[col][i]
            IN  /\ col \in Range(numerics) =>
                       cleaned = fillna0(Converted(col)[i])
                /\ (col \in Range(categoricals) /\ raw.k = "str") =>
                       cleaned = Str(Strip(raw.s))

\* C5 restricted to utils.py, where it holds
C5_HoldsInUtils == script = "utils" => C5_CleanedCells

IsEmptyInput(df) == df.n = 0 \/ df.columns = <<>>

DutchParse(c) ==
    IF c.k = "str"
    THEN ToNumeric(Str(ReplaceAll(RemoveAll(Strip(c.s), "."), ",", ".")))
    ELSE NaN

\* C10: the numeric parse of a cell trims it, removes every ".", replaces
\* every "," by "." and parses the result: "1.234,56" gives 1234.56, "1.5"
\* gives 15 and "<5" does not parse.
C10_ParseRemovesPointsFirst ==
    Returned =>
        \A col \in ColSet(df_raw) : \A i \in 1..df_raw.n :
            LET raw    == df_raw.data[col][i]
                parsed == Converted(col)[i]
            IN  /\ parsed = DutchParse(raw)
                /\ raw = Str(T_dutch) => parsed = Num(123456, 2)
                /\ raw = Str(T_point) => parsed = Num(15, 0)
                /\ raw = Str(T_lt5) => parsed = NaN

\* C10 restricted to utils.py, where it holds
C10_HoldsInUtils == script = "utils" => C10_ParseRemovesPointsFirst

(***************************************************************************)
(* One run of the script (Streamlit runs it from the top on every widget   *)
(* change), with the widgets at x, y, n, asc                               *)
(***************************************************************************)
NothingDrawn ==
    /\ grouped' = FALSE
    /\ df_final' = <<>>
    /\ report' = <<>>
    /\ err' = "none"
    /\ pc' = "info"

\* dashboard.py lines 180-262
DashboardRun(x, y, n, asc) ==
    \E passes \in {detect_loop("dashboard", df_raw)} :
    \E clean \in {detect_df_clean(df_raw, passes)}, mask \in {detect_mask(df_raw, passes)} :
        /\ df_clean' = clean
        /\ mask_less_than_5' = mask
        /\ categoricals' = detect_categoricals(df_raw, passes)
        /\ numerics' = detect_numerics(df_raw, passes)
        /\ dimension' = x
        /\ measures' = y
        /\ top_n' = n
        /\ ascending' = asc
        /\ IF x = None \/ y = <<>>
           THEN NothingDrawn
           ELSE IF x \in Range(y)
           THEN \* groupby(x)[y].sum() keeps the column x, reset_index() cannot
                \* insert it a second time: ValueError, not caught
                /\ grouped' = TRUE
                /\ df_final' = <<>>
                /\ report' = <<>>
                /\ err' = "ValueError"
                /\ pc' = "error"
           ELSE /\ grouped' = TRUE
                /\ \E rows \in {groupby_sum(dash_df_viz(clean, y), x, y)} :
                   \E q \in sort_values(rows, asc) :
                   \E final \in {dash_top_n(q, n)} :
                       /\ df_final' = final
                       /\ report' \in dash_report(mask, clean, x, y, final)
                /\ err' = "none"
                /\ pc' = "shown"

\* app.py lines 66-233 (no column name of the uploaded tables holds "jaar":
\* year_col is None, it stays NoYear, and the year filter never applies)
AppRun(x, y, n, asc) ==
    \E processed \in {app_df_processed(df_raw, y)}, numeric_cols \in {app_numeric_cols(df_raw)} :
        /\ df_clean' = processed
        /\ mask_less_than_5' = NoFrame
        /\ categoricals' = app_grouping_cols(df_raw, numeric_cols)
        /\ numerics' = numeric_cols
        /\ dimension' = x
        /\ measures' = y
        /\ top_n' = n
        /\ ascending' = asc
        /\ IF x = None \/ y = <<>>
           THEN NothingDrawn
           ELSE \E rows \in {groupby_sum(processed, x, y)} :
                \E q \in sort_values(rows, asc) :
                \E final \in {app_top_n(q, n)} :
                    /\ grouped' = TRUE
                    /\ df_final' = final
                    /\ report' = <<>>
                    /\ err' = "none"
                    /\ pc' = IF final = <<>> THEN "info" ELSE "shown"

Run(x, y, n, asc) ==
    /\ IF script = "dashboard" THEN DashboardRun(x, y, n, asc) ELSE AppRun(x, y, n, asc)
    /\ UNCHANGED <<script, df_raw, year_col>>

\* the defaults: the first dimension, the first measure
DefaultDimension ==
    LET dims == IF script = "dashboard"
                THEN detect_categoricals(df_raw, detect_loop("dashboard", df_raw))
                ELSE app_grouping_cols(df_raw, app_numeric_cols(df_raw))
    IN  IF dims = <<>> THEN None ELSE dims[1]

DefaultMeasures ==
    LET nums == IF script = "dashboard"
                THEN detect_numerics(df_raw, detect_loop("dashboard", df_raw))
                ELSE app_numeric_cols(df_raw)
    IN  SubSeq(nums, 1, Min(1, Len(nums)))

\* the options of the widgets, as the last run drew them.  dashboard.py: any
\* column can be put in "Dimensies", "Meetwaarden" stays at its default, the
\* numeric columns; app.py: grouping_cols and numeric_cols.
DimensionOptions ==
    IF script = "dashboard" THEN Range(df_raw.columns) ELSE Range(categoricals)

MeasureOptions == numerics

Ran == pc \in {"shown", "info", "error"}

\* the run that follows the upload, every widget at its default
FirstRun ==
    /\ pc = "start"
    /\ script \in {"dashboard", "app"}
    /\ Run(DefaultDimension, DefaultMeasures, DefaultTop, FALSE)

ChangeDimension ==
    /\ Ran
    /\ \E x \in DimensionOptions \ {dimension} : Run(x, measures, top_n, ascending)

ChangeMeasures ==
    /\ Ran
    /\ \E y \in MultiSelect(MeasureOptions) \ {measures} : Run(dimension, y, top_n, ascending)

ChangeTopN ==
    /\ Ran
    /\ \E n \in TopOptions(script) \ {top_n} : Run(dimension, measures, n, ascending)

ChangeSort ==
    /\ Ran
    /\ Run(dimension, measures, top_n, ~ascending)

MaxDashRows == 2

T_a  == <<"a">>
T_b  == <<"b">>
T_1  == <<"1">>
T_2  == <<"2">>

DashColumns == <<"Gemeente", "Man", "Vrouw">>

\* the cells of each column of the uploaded tables
DashCells ==
    [Gemeente |-> {Str(T_a), Str(T_b)},
     Man      |-> {Str(T_lt5), Str(T_2)},
     Vrouw    |-> {Str(T_lt5), Str(T_1)}]

AggCells ==
    [Gemeente |-> {Str(T_a), Str(T_b)},
     Man      |-> {Str(T_lt5), Str(T_1), Str(T_2)},
     Vrouw    |-> {Str(T_lt5), Str(T_1)}]

\* a file was uploaded and read, no run of the script has drawn anything yet
Uploaded(scripts, cells) ==
    /\ script \in scripts
    /\ pc = "start"
    /\ \E n \in 1..MaxDashRows :
           \E g \in Series(cells.Gemeente, n), m \in Series(cells.Man, n),
              v \in Series(cells.Vrouw, n) :
               df_raw = Frame(DashColumns, n, [Gemeente |-> g, Man |-> m, Vrouw |-> v])
    /\ df_clean = NoFrame
    /\ mask_less_than_5 = NoFrame
    /\ categoricals = <<>>
    /\ numerics = <<>>
    /\ dimension = None
    /\ measures = <<>>
    /\ top_n = DefaultTop
    /\ ascending = FALSE
    /\ grouped = FALSE
    /\ df_final = <<>>
    /\ report = <<>>
    /\ err = "none"
    /\ year_col = NoYear

InitDash == Uploaded({"dashboard"}, DashCells)

InitAgg == Uploaded({"dashboard", "app"}, AggCells)

NextDash ==
    \/ FirstRun
    \/ ChangeDimension
    \/ ChangeMeasures
    \/ ChangeTopN
    \/ ChangeSort

\* dashboard.py on an uploaded table
SpecDash == InitDash /\ [][NextDash]_vars

\* dashboard.py or app.py on an uploaded table
SpecAgg == InitAgg /\ [][NextDash]_vars

(***************************************************************************)
(* Properties of the aggregation, the Top N and the report                 *)
(***************************************************************************)
FinalKeys == {df_final[j].key : j \in 1..Len(df_final)}

\* the total of raw row i over the chosen measures, in the cleaned table
\* (a missing value counts 0)
RowTotal(i) ==
    SumCells([j \in 1..Len(measures) |-> fillna0(df_clean.data[measures[j]][i])])

RowsOf(key) ==
    SelectSeq([i \in 1..df_clean.n |-> i], LAMBDA i : df_clean.data[dimension][i] = key)

\* the Total of a group: the sum of the totals of its rows
GroupTotal(key) == SumCells([j \in 1..Len(RowsOf(key)) |-> RowTotal(RowsOf(key)[j])])

LessEq(x, y) == ~Less(y, x)

InOrder(x, y) == IF ascending THEN LessEq(x, y) ELSE LessEq(y, x)

\* C6: the result has one row per selected group, with the group's sums and
\* Total; it is the first min(N, groups) rows of the groups ordered by Total
\* in the chosen direction (all of them for "all"): descending, the N largest
\* Totals, ascending, the N smallest.
C6_TopNOfSortedTotals ==
    pc = "shown" =>
        LET groups == GroupKeys(df_clean, dimension)
            size   == IF top_n.all THEN Cardinality(groups)
                      ELSE Min(top_n.n, Cardinality(groups))
        IN  /\ Len(df_final) = size
            /\ Cardinality(FinalKeys) = size
            /\ FinalKeys \subseteq groups
            /\ \A j \in 1..Len(df_final) :
                   /\ df_final[j].total = GroupTotal(df_final[j].key)
                   /\ \A m \in Range(measures) :
                          df_final[j].sums[m] =
                              SumCells(Map(fillna0, GroupCells(df_clean, dimension, m, df_final[j].key)))
            /\ \A i, j \in 1..Len(df_final) :
                   i < j => InOrder(df_final[i].total, df_final[j].total)
            /\ \A g \in groups \ FinalKeys : \A j \in 1..Len(df_final) :
                   InOrder(df_final[j].total, GroupTotal(g))

\* C6 restricted to dashboard.py, where it holds
C6_HoldsInDashboard == script = "dashboard" => C6_TopNOfSortedTotals

\* C7: a dimension that is also one of the measures is rejected with
\* InvalidSelectionError before anything is grouped or summed, and no
\* result, chart or report is produced.
C7_SameColumnRejectedBeforeGrouping ==
    (Ran /\ dimension # None /\ dimension \in Range(measures)) =>
        /\ err = "InvalidSelectionError"
        /\ ~grouped
        /\ df_final = <<>>
        /\ report = <<>>

\* the "<5" cells of measure m in the raw rows whose dimension value is v
Suppressed(v, m) ==
    Cardinality({i \in 1..df_raw.n :
                    df_clean.data[dimension][i] = v /\ IsSuppressedCell(df_raw.data[m][i])})

SuppressedTotal(v) ==
    Cardinality({p \in (1..df_raw.n) \X Range(measures) :
                    /\ df_clean.data[dimension][p[1]] = v
                    /\ IsSuppressedCell(df_raw.data[p[2]][p[1]])})

ReportKeys == {report[j].key : j \in 1..Len(report)}

C9_WitnessCut ==
    /\ script = "dashboard"
    /\ pc = "shown"
    /\ \E v \in GroupKeys(df_clean, dimension) \ FinalKeys : SuppressedTotal(v) > 0
    /\ \E v \in FinalKeys : v \notin ReportKeys

(***************************************************************************)
(* app.py: the call get_year_col(df) on the columns of an uploaded table   *)
(***************************************************************************)
MaxYearCols == 3

N_Opleiding     == <<"O", "p", "l", "e", "i", "d", "i", "n", "g">>
N_Onderwijsjaar == <<"O", "n", "d", "e", "r", "w", "i", "j", "s", "j", "a", "a", "r">>
N_Aantal        == <<"A", "a", "n", "t", "a", "l">>
N_A             == <<"A">>
N_B             == <<"B">>
N_C             == <<"C">>
N_JJ            == <<"J", "J">>
N_jj_spaced     == <<" ", "j", "j", " ">>
N_jjx           == <<"j", "j", "x">>
N_JAAR          == <<"J", "A", "A", "R">>

\* the column names of the headers
YearNames ==
    {N_Opleiding, N_Onderwijsjaar, N_Aantal, N_A, N_B, N_C, N_JJ, N_jj_spaced,
     N_jjx, N_JAAR}

\* the headers: read_csv gives every column a name of its own
YearHeaders ==
    {cs \in UNION {[1..k -> YearNames] : k \in 0..MaxYearCols} :
        \A i, j \in 1..Len(cs) : i # j => cs[i] # cs[j]}

InitYear ==
    /\ script = "app"
    /\ pc = "start"
    /\ \E cs \in YearHeaders :
           df_raw = Frame(cs, 0, [c \in Range(cs) |-> <<>>])
    /\ df_clean = NoFrame
    /\ mask_less_than_5 = NoFrame
    /\ categoricals = <<>>
    /\ numerics = <<>>
    /\ dimension = None
    /\ measures = <<>>
    /\ top_n = DefaultTop
    /\ ascending = FALSE
    /\ grouped = FALSE
    /\ df_final = <<>>
    /\ report = <<>>
    /\ err = "none"
    /\ year_col = NoYear

\* app.py line 74: year_col = get_year_col(df)
GetYearCol ==
    /\ pc = "start"
    /\ script = "app"
    /\ year_col' = get_year_col(df_raw.columns)
    /\ pc' = "year"
    /\ UNCHANGED <<script, df_raw, df_clean, mask_less_than_5, categoricals, numerics,
                   dimension, measures, top_n, ascending, grouped, df_final, report,
                   err>>

NextYear == GetYearCol

SpecYear == InitYear /\ [][NextYear]_vars

(***************************************************************************)
(* Properties of get_year_col                                              *)
(***************************************************************************)
YearReturned == pc = "year"

\* the name, trimmed and lower-cased, contains "jaar" or is exactly "jj"
QualifiesTrimmed(col) ==
    LET name == lower(Strip(col))
    IN  Contains(T_jaar, name) \/ name = T_jj

\* the same test on the name as it stands in the header, lower-cased only
QualifiesUntrimmed(col) ==
    LET name == lower(col)
    IN  Contains(T_jaar, name) \/ name = T_jj

\* the smallest element of a non-empty set of positions
First(S) == CHOOSE i \in S : \A j \in S : i <= j

\* C11: get_year_col returns the first column, in column order, whose name
\* after trimming and lower-casing contains "jaar" or equals exactly "jj",
\* and None when no column qualifies; of several qualifying columns only the
\* earliest is returned; ["Opleiding", "Onderwijsjaar", "Aantal"] gives
\* "Onderwijsjaar", ["A", "B", "C"] gives None.
C11_FirstTrimmedMatch ==
    YearReturned =>
        LET cols == df_raw.columns
            hits == {i \in 1..Len(cols) : QualifiesTrimmed(cols[i])}
        IN  /\ year_col = IF hits = {} THEN NoYear ELSE YearCol(cols[First(hits)])
            /\ cols = <<N_Opleiding, N_Onderwijsjaar, N_Aantal>> =>
                   year_col = YearCol(N_Onderwijsjaar)
            /\ cols = <<N_A, N_B, N_C>> => year_col = NoYear

\* what the code computes: the same, on the lower-cased name without trimming
C11_FirstUntrimmedMatch ==
    YearReturned =>
        LET cols == df_raw.columns
            hits == {i \in 1..Len(cols) : QualifiesUntrimmed(cols[i])}
        IN  /\ year_col = IF hits = {} THEN NoYear ELSE YearCol(cols[First(hits)])
            /\ cols = <<N_Opleiding, N_Onderwijsjaar, N_Aantal>> =>
                   year_col = YearCol(N_Onderwijsjaar)
            /\ cols = <<N_A, N_B, N_C>> => year_col = NoYear

\* several columns qualify and the earliest is returned
C11_SeveralQualify ==
    /\ YearReturned
    /\ Cardinality({i \in 1..Len(df_raw.columns) : QualifiesUntrimmed(df_raw.columns[i])}) >= 2
    /\ year_col.found
    /\ year_col.name # df_raw.columns[1]

====
